---- MODULE Spec2Model ----
(***************************************************************************)
(* Model of cmiyc/preprocessing.py: the single-image pre-processing        *)
(* pipeline (gray scale, mode-based threshold, binarization, optional      *)
(* square padding, bilinear resize, normalization), the batch driver that  *)
(* fills and saves one dataset per class, and the main script with its     *)
(* final count assertion.                                                  *)
(*                                                                         *)
(* An image is a record [mode, size, data]: size = <<width, height>> and   *)
(* data is the row-major pixel sequence that getdata() returns (pixel      *)
(* (x, y) is data[y * width + x + 1]).  Mode "L" holds intensities 0..255, *)
(* mode "RGB" holds pixels packed as R + 256 G + 65536 B.  A real value    *)
(* v / 255 of the output array is the pair <<v, 255>>.                     *)
(***************************************************************************)
EXTENDS Integers, Sequences, FiniteSets, TLC

\* ---------------------------------------------------------------- bounds
MaxDim == 2          \* pipeline: widths and heights 1..MaxDim
MaxRes == 2          \* pipeline: final_res 1..MaxRes
MaxPadDim == 10      \* padding helper alone: widths and heights 1..MaxPadDim
MaxFiles == 3        \* batch driver: lists of 0..MaxFiles files
MainRes == 1         \* final_res of the main script in the model (128 in the code)
MaxForged == 1       \* main script: 0..MaxForged forged files are found

\* --------------------------------------------------------- small helpers
Abs(x) == IF x < 0 THEN -x ELSE x
Max(a, b) == IF a >= b THEN a ELSE b
Min(a, b) == IF a <= b THEN a ELSE b
Range(s) == {s[i] : i \in 1..Len(s)}

RECURSIVE SumTo(_, _)
\* sum of f[1..n]
SumTo(f, n) == IF n = 0 THEN 0 ELSE f[n] + SumTo(f, n - 1)

RECURSIVE BitLength(_)
BitLength(n) == IF n = 0 THEN 0 ELSE 1 + BitLength(n \div 2)

RECURSIVE Pow2(_)
Pow2(n) == IF n = 0 THEN 1 ELSE 2 * Pow2(n - 1)

Width(image) == image.size[1]
Height(image) == image.size[2]
GetPixel(image, x, y) == image.data[y * Width(image) + x + 1]

\* ------------------------------------------------- image.convert('L')
\* Pillow's rgb2l: L = (R*19595 + G*38470 + B*7471 + 0x8000) >> 16;
\* an image that is already "L" is copied.
Pack(r, g, b) == r + 256 * g + 65536 * b
Band(rgb, k) == (rgb \div Pow2(8 * k)) % 256

L24(rgb) ==
    (Band(rgb, 0) * 19595 + Band(rgb, 1) * 38470 + Band(rgb, 2) * 7471 + 32768) \div 65536

convert(image) ==
    IF image.mode = "L" THEN image
    ELSE [mode |-> "L", size |-> image.size,
          data |-> [i \in 1..Len(image.data) |-> L24(image.data[i])]]

\* ------------------------------------------- mode(image.getdata())[0][0]
Count(data, v) == Cardinality({i \in 1..Len(data) : data[i] = v})

\* scipy.stats.mode: the most frequent value, the smallest one on a tie.
stats_mode(data) ==
    CHOOSE v \in Range(data) :
        \A u \in Range(data) :
            \/ Count(data, u) < Count(data, v)
            \/ Count(data, u) = Count(data, v) /\ v <= u

\* ------------------------------------------------------ int(0.90 * m)
\* The double 0.90 is 8106479329266893 * 2^-53.  Its 53-bit mantissa is
\* held in three limbs of 22 bits, least significant first.
Limb == 4194304
NineTenths == <<838861, 3355443, 460>>

\* m * mantissa, exactly, as three limbs (the top limb is not reduced).
MulLimbs(m) ==
    LET q0 == m * NineTenths[1]
        q1 == m * NineTenths[2] + q0 \div Limb
    IN  <<q0 % Limb, q1 % Limb, m * NineTenths[3] + q1 \div Limb>>

\* IEEE-754 round to nearest, ties to even, of a limb product to 53
\* significant bits.  The product has 44 + BitLength(top limb) bits.
RoundDouble(p) ==
    LET s    == Max(0, 44 + BitLength(p[3]) - 53)
        unit == Pow2(s)
        r    == p[1] % unit
        odd  == (p[1] \div unit) % 2 = 1
        up   == s > 0 /\ (2 * r > unit \/ (2 * r = unit /\ odd))
        l0   == p[1] - r + (IF up THEN unit ELSE 0)
        l1   == p[2] + l0 \div Limb
    IN  <<l0 % Limb, l1 % Limb, p[3] + l1 \div Limb>>

\* int(): truncation of the double p * 2^-53 (bits 53 and up of the product).
IntOfDouble(p) == p[3] \div 512

\* (variant: round() to the nearest integer instead of int())
RoundOfDouble(p) == (p[3] + 256) \div 512

RoundedThreshold(m) == RoundOfDouble(RoundDouble(MulLimbs(m)))

Threshold(m) == IntOfDouble(RoundDouble(MulLimbs(m)))

\* --------------------------- lut = [0] * threshold + [255] * (256 - threshold)
Repeat(v, n) == [i \in 1..Max(0, n) |-> v]

\* (variants: the two values swapped; 1 for white; v <= t taken as ink)
InvertedLut(t) == Repeat(255, t) \o Repeat(0, 256 - t)

BitLut(t) == Repeat(0, t) \o Repeat(1, 256 - t)

InclusiveLut(t) == Repeat(0, t + 1) \o Repeat(255, 255 - t)

Lut(t) == Repeat(0, t) \o Repeat(255, 256 - t)

\* ---------------------------------------------------- image.point(lut)
\* table[v + 1] is the entry of intensity v (Python lists start at 0).
point(image, table) ==
    [image EXCEPT !.data = [i \in 1..Len(image.data) |-> table[image.data[i] + 1]]]

\* ------------------------------------------------ pad_image_square_center
\* Image.new(image.mode, (new_size, new_size), 'white'): every pixel 255.
White == 255

Image_new(mode, size, fill) ==
    [mode |-> mode, size |-> size, data |-> Repeat(fill, size[1] * size[2])]

\* new_image.paste(image, position): the box of image's size at position
\* takes image's pixels, every other pixel keeps its value.
paste(new_image, image, position) ==
    [new_image EXCEPT !.data =
        [i \in 1..Len(new_image.data) |->
            LET x == ((i - 1) % Width(new_image)) - position[1]
                y == ((i - 1) \div Width(new_image)) - position[2]
            IN  IF x \in 0..(Width(image) - 1) /\ y \in 0..(Height(image) - 1)
                THEN GetPixel(image, x, y)
                ELSE new_image.data[i]]]

\* (variant: offsets rounded up)
CeilPosition(new_size, image) ==
    <<(new_size - Width(image) + 1) \div 2, (new_size - Height(image) + 1) \div 2>>

Position(new_size, image) ==
    <<(new_size - Width(image)) \div 2, (new_size - Height(image)) \div 2>>

pad_image_square_center(image) ==
    LET new_size  == Max(Width(image), Height(image))
        new_image == Image_new(image.mode, <<new_size, new_size>>, White)
    IN  paste(new_image, image, Position(new_size, image))

\* ------------------- image.resize((final_res, final_res), Image.BILINEAR)
\* Pillow's ImagingResample for 8-bit pixels with the triangle filter of
\* support 1, one axis at a time.  For an axis of inSize pixels resampled
\* to outSize, with F = max(inSize, outSize), output index xx and input
\* index j, all in units of 1 / (2 * outSize):
\*   center      = (2 xx + 1) * inSize / (2 * outSize)
\*   window      = [ (int)(center - support + 0.5), (int)(center + support + 0.5) )
\*   weight(j)   = max(0, 2 F - |(2 j + 1) outSize - (2 xx + 1) inSize|) / (2 F)
\* The weights are normalised by their sum, turned into fixed point with
\* PrecisionBits fractional bits (rounded), and the weighted sum is rounded
\* and clipped to 0..255.
PrecisionBits == 22

WindowMin(inSize, outSize, xx) ==
    Max(0, ((2 * xx + 1) * inSize - 2 * Max(inSize, outSize) + outSize) \div (2 * outSize))

WindowMax(inSize, outSize, xx) ==
    Min(inSize, ((2 * xx + 1) * inSize + 2 * Max(inSize, outSize) + outSize) \div (2 * outSize))

Triangle(inSize, outSize, xx, j) ==
    Max(0, 2 * Max(inSize, outSize) - Abs((2 * j + 1) * outSize - (2 * xx + 1) * inSize))

\* the normalised fixed-point coefficients of output index xx, as a
\* function over the window's input indices
Coeffs(inSize, outSize, xx) ==
    LET lo == WindowMin(inSize, outSize, xx)
        hi == WindowMax(inSize, outSize, xx) - 1
        n  == hi - lo + 1
        w  == [k \in 1..n |-> Triangle(inSize, outSize, xx, lo + k - 1)]
        ww == SumTo(w, n)
    IN  [j \in lo..hi |->
            IF ww = 0 THEN 0
            ELSE (w[j - lo + 1] * Pow2(PrecisionBits + 1) + ww) \div (2 * ww)]

clip8(acc) == Max(0, Min(255, acc \div Pow2(PrecisionBits)))

\* one output pixel: line[j] is the input pixel of index j along the axis
ResamplePixel(line, inSize, outSize, xx) ==
    LET k   == Coeffs(inSize, outSize, xx)
        lo  == WindowMin(inSize, outSize, xx)
        n   == WindowMax(inSize, outSize, xx) - lo
        t   == [i \in 1..n |-> line[lo + i - 1] * k[lo + i - 1]]
    IN  clip8(Pow2(PrecisionBits - 1) + SumTo(t, n))

ResampleHorizontal(image, xsize) ==
    IF xsize = Width(image) THEN image
    ELSE [mode |-> image.mode, size |-> <<xsize, Height(image)>>,
          data |-> [i \in 1..(xsize * Height(image)) |->
              LET xx == (i - 1) % xsize
                  y  == (i - 1) \div xsize
              IN  ResamplePixel([j \in 0..(Width(image) - 1) |-> GetPixel(image, j, y)],
                                Width(image), xsize, xx)]]

ResampleVertical(image, ysize) ==
    IF ysize = Height(image) THEN image
    ELSE [mode |-> image.mode, size |-> <<Width(image), ysize>>,
          data |-> [i \in 1..(Width(image) * ysize) |->
              LET x  == (i - 1) % Width(image)
                  yy == (i - 1) \div Width(image)
              IN  ResamplePixel([j \in 0..(Height(image) - 1) |-> GetPixel(image, x, j)],
                                Height(image), ysize, yy)]]

\* (variant: only the width is resampled)
ResizeKeepHeight(image, size) == ResampleHorizontal(image, size[1])

resize(image, size) == ResampleVertical(ResampleHorizontal(image, size[1]), size[2])

\* ------- np.array(image.getdata()).reshape((final_res, final_res)) / 255
\* reshape needs exactly final_res * final_res values.
CanReshape(image, final_res) == Len(image.data) = final_res * final_res

Scaled(v) == <<v, 255>>

to_array(image, final_res) ==
    [r \in 1..final_res |-> [c \in 1..final_res |->
        Scaled(image.data[(r - 1) * final_res + c])]]

\* im.reshape((1, -1)) stored in a dataset row: the rows of im, one after another
Flatten(sample) ==
    [i \in 1..(Len(sample) * Len(sample)) |->
        sample[((i - 1) \div Len(sample)) + 1][((i - 1) % Len(sample)) + 1]]

\* ------------------------------------------------------ preprocess_image
Binarize(gray) == point(gray, Lut(Threshold(stats_mode(gray.data))))

preprocess_image(image, final_res, padding) ==
    LET bw     == Binarize(convert(image))
        square == IF padding THEN pad_image_square_center(bw) ELSE bw
    IN  to_array(resize(square, <<final_res, final_res>>), final_res)

\* ======================================================= program state
VARIABLES
    pc,          \* position in the running function
    image,       \* preprocess_image: the local `image`
    images,      \* preprocess_image: the list `images` of (title, image) stages
    threshold,   \* preprocess_image: the local `threshold`
    lut,         \* preprocess_image: the local `lut`
    final_res,   \* parameter final_res
    padding,     \* parameter padding
    result,      \* the array preprocess_image returns
    files_list,  \* batch_preprocess: parameter files_list
    dest_file,   \* batch_preprocess: parameter dest_file, [dir, name]
    row,         \* batch_preprocess: number of loop iterations completed
    dataset,     \* batch_preprocess: the local `dataset`
    opened,      \* the files Image.open was called on, in call order
    dirs,        \* file system: the directories that exist
    disk,        \* file system: the arrays np.save has written, by destination
    error,       \* the exception that ended the run, "" while there is none
    n_sig,       \* __main__: n_sig
    phase,       \* __main__: which batch is running ("batch": a direct call)
    raw          \* file system: what the two fetch_all_raw_* globs match

vars == <<pc, image, images, threshold, lut, final_res, padding, result,
          files_list, dest_file, row, dataset, opened, dirs, disk, error,
          n_sig, phase, raw>>

pipeVars == <<image, images, threshold, lut, result>>
batchVars == <<files_list, dest_file, row, dataset, opened, dirs, disk>>
mainVars == <<n_sig, phase, raw>>

NoImage == [mode |-> "L", size |-> <<0, 0>>, data |-> <<>>]

\* ------------------------------------------------------------ constants
PATH_SAVE == "data/clean/"
PATH_TRAIN_GENUINE == [dir |-> "data/clean/", name |-> "train-dutch-offline-genuine.npy"]
PATH_TRAIN_FORGERIES == [dir |-> "data/clean/", name |-> "train-dutch-offline-forgeries.npy"]
ExpectedTotal == 2295

\* ------------------------------------------------------- input universes
Levels == {60, 200}
Colours == {Pack(200, 30, 90), Pack(255, 255, 255)}
InkLevels == {0, 128, 255}

ImagesOf(mode, pixels, n) ==
    UNION {{[mode |-> mode, size |-> sz, data |-> d] : d \in [1..(sz[1] * sz[2]) -> pixels]}
           : sz \in (1..n) \X (1..n)}

\* every "L" and "RGB" image of up to MaxDim x MaxDim pixels over two pixel values
ShapeImages == ImagesOf("L", Levels, MaxDim) \cup ImagesOf("RGB", Colours, MaxDim)

\* for every intensity m one image whose mode is m by majority and one
\* where m ties with another intensity
ModeImages ==
    {[mode |-> "L", size |-> <<Len(d), 1>>, data |-> d] :
        d \in UNION {{<<m, v>>, <<m, v, m>>} : m \in 0..255, v \in InkLevels}}

\* ================================================= preprocess_image steps
InitIdle ==
    /\ files_list = <<>> /\ dest_file = PATH_TRAIN_GENUINE /\ row = 0
    /\ dataset = <<>> /\ opened = <<>> /\ dirs = {} /\ disk = {}
    /\ error = "" /\ n_sig = 0 /\ phase = "pipeline"
    /\ raw = [genuine |-> <<>>, forgeries |-> <<>>]

Init ==
    /\ image \in ShapeImages \cup ModeImages
    /\ final_res \in 1..MaxRes
    /\ padding \in BOOLEAN
    /\ images = <<[title |-> "original", image |-> image]>>
    /\ threshold = 0 /\ lut = <<>> /\ result = <<>>
    /\ pc = "convert"
    /\ InitIdle

Track(title, im) == Append(images, [title |-> title, image |-> im])

\* image = image.convert('L'); images.append(('gray scale', image, 'gray'))
ConvertGray ==
    /\ pc = "convert"
    /\ image' = convert(image)
    /\ images' = Track("gray scale", image')
    /\ pc' = "threshold"
    /\ UNCHANGED <<threshold, lut, result, final_res, padding, error>>
    /\ UNCHANGED <<batchVars, mainVars>>

\* threshold = int(0.90 * mode(image.getdata())[0][0])
FindThreshold ==
    /\ pc = "threshold"
    /\ threshold' = Threshold(stats_mode(image.data))
    /\ pc' = "lut"
    /\ UNCHANGED <<image, images, lut, result, final_res, padding, error>>
    /\ UNCHANGED <<batchVars, mainVars>>

\* lut = [0] * threshold + [255] * (256 - threshold)
MakeLut ==
    /\ pc = "lut"
    /\ lut' = Lut(threshold)
    /\ pc' = "point"
    /\ UNCHANGED <<image, images, threshold, result, final_res, padding, error>>
    /\ UNCHANGED <<batchVars, mainVars>>

\* image = image.point(lut); images.append(('black & white', image, 'gray'))
ApplyPoint ==
    /\ pc = "point"
    /\ image' = point(image, lut)
    /\ images' = Track("black & white", image')
    /\ pc' = "padding"
    /\ UNCHANGED <<threshold, lut, result, final_res, padding, error>>
    /\ UNCHANGED <<batchVars, mainVars>>

\* if padding: image = pad_image_square_center(image); images.append(...)
Pad ==
    /\ pc = "padding"
    /\ padding
    /\ image' = pad_image_square_center(image)
    /\ images' = Track("padding", image')
    /\ pc' = "resize"
    /\ UNCHANGED <<threshold, lut, result, final_res, padding, error>>
    /\ UNCHANGED <<batchVars, mainVars>>

\* image = image.resize((final_res, final_res), Image.BILINEAR); images.append(...)
\* (reached from the black & white stage directly when padding is off)
Resize ==
    /\ \/ pc = "padding" /\ ~padding
       \/ pc = "resize"
    /\ image' = resize(image, <<final_res, final_res>>)
    /\ images' = Track("resize", image')
    /\ pc' = "return"
    /\ UNCHANGED <<threshold, lut, result, final_res, padding, error>>
    /\ UNCHANGED <<batchVars, mainVars>>

\* return np.array(image.getdata()).reshape((final_res, final_res)) / 255
\* (the plot branch draws the stages and changes nothing that is returned)
Return ==
    /\ pc = "return"
    /\ IF CanReshape(image, final_res)
       THEN result' = to_array(image, final_res) /\ pc' = "returned" /\ error' = error
       ELSE result' = result /\ pc' = "raised" /\ error' = "ValueError"
    /\ UNCHANGED <<image, images, threshold, lut, final_res, padding>>
    /\ UNCHANGED <<batchVars, mainVars>>

Next ==
    \/ ConvertGray
    \/ FindThreshold
    \/ MakeLut
    \/ ApplyPoint
    \/ Pad
    \/ Resize
    \/ Return

Spec == Init /\ [][Next]_vars

\* ---------------------------------------------- claims on the pipeline
StageImage(k) == images[k].image
\* right after the table is built, and right after it is applied
LutBuilt == pc = "point"
Binarized == pc = "padding"
MostFrequent(data, m) ==
    m \in Range(data) /\ \A u \in Range(data) : Count(data, u) <= Count(data, m)

\* C1: for every input image (square or not), every final_res and either
\* padding flag, preprocess_image returns (it does not raise) a grid of
\* exactly final_res x final_res values, each an integer in 0..255 over 255.
C1_OutputShapeAndRange ==
    /\ pc # "raised"
    /\ pc = "returned" =>
        /\ Len(result) = final_res
        /\ \A r \in 1..final_res :
            /\ Len(result[r]) = final_res
            /\ \A c \in 1..final_res :
                result[r][c][1] \in 0..255 /\ result[r][c][2] = 255

\* a non-square input, no padding, and an output value strictly inside (0, 1)
C1_Witness ==
    /\ pc = "returned" /\ ~padding /\ final_res > 1
    /\ Width(StageImage(1)) # Height(StageImage(1))
    /\ \E r \in 1..final_res : \E c \in 1..final_res : result[r][c][1] \in 1..254

\* C2: the threshold is floor(9 * mode / 10) for a most frequent gray
\* intensity `mode` of the image; a most frequent intensity of 200 gives 180.
C2_ThresholdIsNineTenthsOfMode ==
    pc = "lut" =>
        /\ \E m \in 0..255 :
            MostFrequent(StageImage(2).data, m) /\ threshold = (9 * m) \div 10
        /\ (\A m \in 0..255 : MostFrequent(StageImage(2).data, m) <=> m = 200)
            => threshold = 180

C2_Witness ==
    /\ pc = "lut" /\ threshold = 180
    /\ \A m \in 0..255 : MostFrequent(image.data, m) <=> m = 200

\* C3: the lookup table has 256 entries, 0 below the threshold and 255 from
\* it on; the binarized image has the gray image's size and each pixel is 0
\* when the gray pixel is below the threshold and 255 otherwise.
C3_LutAndBinaryImage ==
    /\ LutBuilt =>
        /\ Len(lut) = 256
        /\ \A v \in 0..255 : lut[v + 1] = IF v < threshold THEN 0 ELSE 255
    /\ Binarized =>
        /\ StageImage(3).size = StageImage(2).size
        /\ Len(StageImage(3).data) = Len(StageImage(2).data)
        /\ \A i \in 1..Len(StageImage(3).data) :
            StageImage(3).data[i] = IF StageImage(2).data[i] < threshold THEN 0 ELSE 255

\* both values occur in a binarized image
C3_Witness ==
    /\ pc = "padding"
    /\ 0 \in Range(image.data) /\ 255 \in Range(image.data)

\* C9: applying the lookup table to a binarized image (or to any table
\* output) gives the same image again, also for threshold 0.
C9_BinarizationIdempotent ==
    /\ LutBuilt =>
        \A v \in 0..255 : lut[lut[v + 1] + 1] = lut[v + 1]
    /\ Binarized =>
        /\ point(StageImage(3), lut) = StageImage(3)
        /\ point(point(StageImage(2), lut), lut) = point(StageImage(2), lut)

\* the degenerate threshold 0, and a threshold that separates two values
C9_Witness ==
    /\ pc = "padding" /\ threshold > 0
    /\ 0 \in Range(image.data) /\ 255 \in Range(image.data)

C9_WitnessDegenerate == pc = "padding" /\ threshold = 0

\* C10: 0 <= threshold <= mode, so each pixel at the mode intensity becomes
\* 255; an image of one single intensity (0 included) is processed without
\* an error and becomes all 255.
C10_ModePixelsAreBackground ==
    /\ pc # "raised"
    /\ pc = "lut" =>
        \A m \in 0..255 :
            MostFrequent(StageImage(2).data, m) => 0 <= threshold /\ threshold <= m
    /\ Binarized =>
        /\ \A i \in 1..Len(StageImage(2).data) :
             MostFrequent(StageImage(2).data, StageImage(2).data[i])
                 => StageImage(3).data[i] = 255
        /\ Cardinality(Range(StageImage(2).data)) = 1
             => Range(StageImage(3).data) = {255}

\* an all-black image, binarized to all white
C10_Witness ==
    /\ pc = "padding"
    /\ Range(StageImage(2).data) = {0}
    /\ Range(image.data) = {255}

\* ============================================ pad_image_square_center alone
\* images of every size up to MaxPadDim x MaxPadDim: one with pairwise
\* distinct non-white pixels, one all black
PadImages ==
    UNION {{[mode |-> "L", size |-> sz, data |-> [i \in 1..(sz[1] * sz[2]) |-> (i - 1) % 251]],
            [mode |-> "L", size |-> sz, data |-> [i \in 1..(sz[1] * sz[2]) |-> 0]]}
           : sz \in (1..MaxPadDim) \X (1..MaxPadDim)}

InitPad ==
    /\ image \in PadImages
    /\ images = <<[title |-> "black & white", image |-> image]>>
    /\ final_res = 1 /\ padding = TRUE
    /\ threshold = 0 /\ lut = <<>> /\ result = <<>>
    /\ pc = "pad"
    /\ InitIdle

\* image = pad_image_square_center(image)
CallPad ==
    /\ pc = "pad"
    /\ image' = pad_image_square_center(image)
    /\ images' = Track("padding", image')
    /\ pc' = "padded"
    /\ UNCHANGED <<threshold, lut, result, final_res, padding, error>>
    /\ UNCHANGED <<batchVars, mainVars>>

NextPad == CallPad

SpecPad == InitPad /\ [][NextPad]_vars

\* C4: the padded canvas is square with side max(w, h); the input sits at
\* offsets ((side - w) // 2, (side - h) // 2) and every other pixel is 255;
\* an odd difference leaves the leading margin one pixel smaller than the
\* trailing one; a 10x4 input sits in rows 3..6 of a 10x10 canvas.
C4_PaddingGeometry ==
    pc = "padded" =>
        LET in   == StageImage(1)
            w    == Width(in)
            h    == Height(in)
            side == IF w >= h THEN w ELSE h
            ox   == (side - w) \div 2
            oy   == (side - h) \div 2
        IN  /\ image.size = <<side, side>>
            /\ Len(image.data) = side * side
            /\ \A x \in 0..(side - 1) : \A y \in 0..(side - 1) :
                 image.data[y * side + x + 1] =
                    IF x - ox \in 0..(w - 1) /\ y - oy \in 0..(h - 1)
                    THEN in.data[(y - oy) * w + (x - ox) + 1]
                    ELSE 255
            /\ (side - w) % 2 = 1 => ox + 1 = side - w - ox
            /\ (side - h) % 2 = 1 => oy + 1 = side - h - oy
            /\ in.size = <<10, 4>> =>
                 /\ image.size = <<10, 10>>
                 /\ \A x \in 0..9 : \A y \in 0..9 :
                      image.data[y * 10 + x + 1] =
                         IF y \in 3..6 THEN in.data[(y - 3) * 10 + x + 1] ELSE 255

C4_Witness ==
    /\ pc = "padded"
    /\ StageImage(1).size = <<10, 4>>
    /\ image.size = <<10, 10>>
    /\ 255 \notin Range(StageImage(1).data)

\* an odd size difference
C4_WitnessOdd ==
    /\ pc = "padded"
    /\ StageImage(1).size = <<2, 5>>

\* ======================================================= batch_preprocess
\* The files of the model: two images and one file that is no image.
Files == {"001_01.PNG", "0101001_01.png", "Thumbs.db"}

\* Image.open(file) raises for a file that cannot be decoded.
Decodable(file) == file # "Thumbs.db"

FileImage(file) ==
    IF file = "001_01.PNG"
    THEN [mode |-> "L", size |-> <<2, 1>>, data |-> <<200, 60>>]
    ELSE [mode |-> "RGB", size |-> <<1, 2>>,
          data |-> <<Pack(255, 255, 255), Pack(200, 30, 90)>>]

DestFiles == {PATH_TRAIN_GENUINE, [dir |-> "out/", name |-> "dataset.npy"]}

SeqsUpTo(S, n) == UNION {[1..k -> S] : k \in 0..n}

\* a value np.empty left unset
Unset == <<0, 0>>

\* np.empty((num_files, final_res * final_res))
np_empty(rows, cols) == [r \in 1..rows |-> [c \in 1..cols |-> Unset]]

InitBatch ==
    /\ files_list \in SeqsUpTo(Files, MaxFiles)
    /\ dest_file \in DestFiles
    /\ final_res \in 1..MaxRes
    /\ padding \in BOOLEAN
    /\ dirs \in SUBSET {PATH_SAVE, "out/"}
    /\ pc = "batch" /\ phase = "batch"
    /\ row = 0 /\ dataset = <<>> /\ opened = <<>> /\ disk = {} /\ error = ""
    /\ n_sig = 0 /\ raw = [genuine |-> <<>>, forgeries |-> <<>>]
    /\ image = NoImage /\ images = <<>> /\ threshold = 0 /\ lut = <<>> /\ result = <<>>

\* num_files = len(files_list); dataset = np.empty(...)
Allocate ==
    /\ pc = "batch"
    /\ dataset' = np_empty(Len(files_list), final_res * final_res)
    /\ row' = 0
    /\ pc' = "loop"
    /\ UNCHANGED <<files_list, dest_file, opened, dirs, disk, error, final_res, padding>>
    /\ UNCHANGED <<pipeVars, mainVars>>

\* (variant: a file that does not open is skipped)
SkipsBadFile(file) == TRUE

\* whether the loop body gets past Image.open(file)
Opens(file) == Decodable(file)

\* (variant: every iteration writes the first row)
FirstRow(k) == 1

\* the index of the dataset row that iteration number k (from 0) writes
RowOf(k) == k + 1

\* one iteration of the for loop: open the file, pre-process it, store the row
Iterate ==
    /\ pc = "loop"
    /\ row < Len(files_list)
    /\ LET file == files_list[row + 1]
       IN  /\ opened' = Append(opened, file)
           /\ IF Opens(file)
              THEN /\ dataset' = [dataset EXCEPT ![RowOf(row)] =
                          Flatten(preprocess_image(FileImage(file), final_res, padding))]
                   /\ row' = row + 1
                   /\ pc' = "loop" /\ error' = error
              ELSE /\ pc' = "raised" /\ error' = "DecodeError"
                   /\ UNCHANGED <<dataset, row>>
    /\ UNCHANGED <<files_list, dest_file, dirs, disk, final_res, padding>>
    /\ UNCHANGED <<pipeVars, mainVars>>

\* The number of iterations the loop completes from iteration k on: up to
\* the first file that does not open, or all of them.
LastCompleted(files, k) ==
    LET bad == {i \in (k + 1)..Len(files) : ~Opens(files[i])}
    IN  IF bad = {} THEN Len(files) ELSE (CHOOSE i \in bad : \A j \in bad : i <= j) - 1

\* the dataset row of each file of the list that can be opened
Samples(files, res, pad) ==
    [f \in Range(files) |->
        IF Decodable(f) THEN Flatten(preprocess_image(FileImage(f), res, pad)) ELSE <<>>]

\* The same for loop run to its end in one step: the iterations in list
\* order up to the first file that does not open, or all of them.
RunLoop ==
    /\ pc = "loop"
    /\ row < Len(files_list)
    /\ \E stop \in {LastCompleted(files_list, row)} :
       \E sample \in {Samples(files_list, final_res, padding)} :
           /\ row' = stop
           /\ opened' = opened \o SubSeq(files_list, row + 1, Min(stop + 1, Len(files_list)))
           /\ dataset' = [i \in 1..Len(files_list) |->
                  IF i \in (row + 1)..stop THEN sample[files_list[i]] ELSE dataset[i]]
           /\ IF stop = Len(files_list)
              THEN pc' = "loop" /\ error' = error
              ELSE pc' = "raised" /\ error' = "DecodeError"
    /\ UNCHANGED <<files_list, dest_file, dirs, disk, final_res, padding>>
    /\ UNCHANGED <<pipeVars, mainVars>>

DestinationDir(dest) == dest.dir

\* the directory the batch driver creates before saving
SaveDir(dest) == PATH_SAVE

\* if not os.path.exists(PATH_SAVE): os.makedirs(PATH_SAVE)
Makedirs ==
    /\ pc = "loop"
    /\ row = Len(files_list)
    /\ dirs' = dirs \cup {SaveDir(dest_file)}
    /\ pc' = "save"
    /\ UNCHANGED <<files_list, dest_file, row, dataset, opened, disk, error, final_res, padding>>
    /\ UNCHANGED <<pipeVars, mainVars>>

\* np.save(dest_file, dataset): writes the file, or raises when the
\* directory of dest_file does not exist
np_save(dest, array) ==
    {e \in disk : e.file # dest} \cup {[file |-> dest, array |-> array]}

Save ==
    /\ pc = "save"
    /\ IF dest_file.dir \in dirs
       THEN disk' = np_save(dest_file, dataset) /\ pc' = "done" /\ error' = error
       ELSE disk' = disk /\ pc' = "raised" /\ error' = "FileNotFoundError"
    /\ UNCHANGED <<files_list, dest_file, row, dataset, opened, dirs, final_res, padding>>
    /\ UNCHANGED <<pipeVars, mainVars>>

NextBatch ==
    \/ Allocate
    \/ Iterate
    \/ Makedirs
    \/ Save

SpecBatch == InitBatch /\ [][NextBatch]_vars


\* ------------------------------------------------ claims on the batch driver
Sample(file) == Flatten(preprocess_image(FileImage(file), final_res, padding))
AllDecodable == \A i \in 1..Len(files_list) : Decodable(files_list[i])

\* C5: for a list of loadable files the loop handles the files one after
\* another in list order; after k iterations exactly rows 1..k are written
\* (row i is the flattened sample of file i, the later rows are still
\* unset); on completion the saved array has one row of final_res^2
\* columns per file, row i being the sample of file i.
C5_OneRowPerFileInOrder ==
    (AllDecodable /\ pc \in {"loop", "save", "done"}) =>
        /\ Len(dataset) = Len(files_list)
        /\ row \in 0..Len(files_list)
        /\ opened = SubSeq(files_list, 1, row)
        /\ \A i \in 1..Len(dataset) :
            /\ Len(dataset[i]) = final_res * final_res
            /\ i <= row => dataset[i] = Sample(files_list[i])
            /\ i > row => \A c \in 1..Len(dataset[i]) : dataset[i][c] = Unset
        /\ pc = "done" =>
            /\ row = Len(files_list)
            /\ \E e \in disk : e.file = dest_file
            /\ \A e \in disk : e.file = dest_file =>
                /\ Len(e.array) = Len(files_list)
                /\ \A i \in 1..Len(files_list) :
                    /\ Len(e.array[i]) = final_res * final_res
                    /\ e.array[i] = Sample(files_list[i])

\* a saved batch of three files, not all the same
C5_Witness ==
    /\ pc = "done" /\ Len(files_list) = 3
    /\ files_list[1] # files_list[2]
    /\ \E e \in disk : e.file = dest_file /\ Len(e.array) = 3

\* the empty list is saved as an array without rows
C5_WitnessEmpty == pc = "done" /\ files_list = <<>> /\ \E e \in disk : e.array = <<>>

\* C6: a file that cannot be loaded ends the call with that error at once:
\* it is the first such file of the list, every file before it was
\* processed and none after it was opened, no file is skipped (the loop
\* never gets past a bad file) and nothing is saved.
C6_FailFast ==
    /\ error = "DecodeError" =>
        /\ pc = "raised"
        /\ row < Len(files_list)
        /\ ~Decodable(files_list[row + 1])
        /\ \A i \in 1..row : Decodable(files_list[i])
        /\ opened = SubSeq(files_list, 1, row + 1)
        /\ disk = {}
    /\ pc \in {"loop", "save", "done"} =>
        /\ \A i \in 1..row : Decodable(files_list[i])
        /\ Len(opened) = row

\* the second of three files is bad: the first was processed, the third
\* never opened
C6_Witness ==
    /\ error = "DecodeError" /\ Len(files_list) = 3 /\ row = 1
    /\ Decodable(files_list[3])

\* the whole-loop step agrees with the iterations taken one by one
LoopSummaryAgrees ==
    (pc = "raised" /\ error = "DecodeError") \/ (pc = "loop" /\ row = Len(files_list)) =>
        /\ row = LastCompleted(files_list, 0)
        /\ opened = SubSeq(files_list, 1, Min(row + 1, Len(files_list)))
        /\ \A i \in 1..row :
             dataset[i] = Samples(files_list, final_res, padding)[files_list[i]]

\* C7: at the moment of the save the directory of dest_file exists, so the
\* save never fails for a missing directory.
C7_DestinationDirExists ==
    /\ pc = "save" => DestinationDir(dest_file) \in dirs
    /\ error # "FileNotFoundError"

\* ================================================================ __main__
\* what the globs find: the genuine and the forged files, with at most one
\* file that is no image among them
Listing(n, file, bad) == [i \in 1..n |-> IF i = bad THEN "Thumbs.db" ELSE file]

RawTrees ==
    {[genuine |-> Listing(g, "001_01.PNG", bg), forgeries |-> Listing(f, "0101001_01.png", bf)] :
        g \in {ExpectedTotal - 1, ExpectedTotal},
        f \in 0..MaxForged,
        bg \in {0, 1},
        bf \in {0, 1}}

InitMain ==
    /\ raw \in RawTrees
    /\ dirs \in {{}, {PATH_SAVE}}
    /\ pc = "main" /\ phase = "main"
    /\ files_list = <<>> /\ dest_file = PATH_TRAIN_GENUINE
    /\ final_res = MainRes /\ padding = TRUE
    /\ row = 0 /\ dataset = <<>> /\ opened = <<>> /\ disk = {} /\ error = ""
    /\ n_sig = 0
    /\ image = NoImage /\ images = <<>> /\ threshold = 0 /\ lut = <<>> /\ result = <<>>

fetch_all_raw_genuine == raw.genuine
fetch_all_raw_forgeries == raw.forgeries

\* files_list = fetch_all_raw_genuine(); n_sig = len(files_list);
\* batch_preprocess(files_list, PATH_TRAIN_GENUINE, final_res, padding)
MainGenuine ==
    /\ pc = "main"
    /\ files_list' = fetch_all_raw_genuine
    /\ n_sig' = Len(files_list')
    /\ dest_file' = PATH_TRAIN_GENUINE
    /\ phase' = "genuine"
    /\ pc' = "batch"
    /\ UNCHANGED <<row, dataset, opened, dirs, disk, error, final_res, padding, raw>>
    /\ UNCHANGED pipeVars

\* (variant: n_sig = len(files_list))
SetCount(n, files) == Len(files)

\* n_sig += len(files_list)
AddCount(n, files) == n + Len(files)

\* files_list = fetch_all_raw_forgeries(); n_sig += len(files_list);
\* batch_preprocess(files_list, PATH_TRAIN_FORGERIES, final_res, padding)
MainForgeries ==
    /\ pc = "done" /\ phase = "genuine"
    /\ files_list' = fetch_all_raw_forgeries
    /\ n_sig' = AddCount(n_sig, files_list')
    /\ dest_file' = PATH_TRAIN_FORGERIES
    /\ phase' = "forgeries"
    /\ pc' = "batch"
    /\ UNCHANGED <<row, dataset, opened, dirs, disk, error, final_res, padding, raw>>
    /\ UNCHANGED pipeVars

\* assert n_sig == 2295, message
MainAssert ==
    /\ pc = "done" /\ phase = "forgeries"
    /\ IF n_sig = ExpectedTotal
       THEN pc' = "exit" /\ error' = error
       ELSE pc' = "raised" /\ error' = "AssertionError"
    /\ phase' = "assert"
    /\ UNCHANGED <<n_sig, raw>>
    /\ UNCHANGED <<batchVars, pipeVars, final_res, padding>>

NextMain ==
    \/ MainGenuine
    \/ Allocate
    \/ RunLoop
    \/ Makedirs
    \/ Save
    \/ MainForgeries
    \/ MainAssert

SpecMain == InitMain /\ [][NextMain]_vars

\* ---------------------------------------------------- claims on __main__
Found == Len(raw.genuine) + Len(raw.forgeries)
Saved(dest) == \E e \in disk : e.file = dest

\* C8 as stated: in a full run a count other than 2295 raises the
\* assertion, and when it is raised no dataset has been saved yet.
C8_AssertBeforeAnyDataset ==
    /\ (phase = "assert" /\ Found # ExpectedTotal) => error = "AssertionError"
    /\ error = "AssertionError" => disk = {}

\* C8 amended: in a full run the assertion is raised exactly when the count
\* of files found differs from 2295; it is the last step of the run, and
\* both datasets, one row per file found, are already saved when it fires.
C8_AssertAfterBothDatasets ==
    /\ phase = "assert" =>
        /\ n_sig = Found
        /\ pc \in {"exit", "raised"}
        /\ (error = "AssertionError") <=> (Found # ExpectedTotal)
        /\ (pc = "raised") <=> (Found # ExpectedTotal)
    /\ error = "AssertionError" =>
        /\ phase = "assert"
        /\ \E e \in disk : e.file = PATH_TRAIN_GENUINE /\ Len(e.array) = Len(raw.genuine)
        /\ \E e \in disk : e.file = PATH_TRAIN_FORGERIES /\ Len(e.array) = Len(raw.forgeries)

\* the assertion fires on 2296 files with both datasets on disk
C8_Witness ==
    /\ error = "AssertionError" /\ Found = ExpectedTotal + 1
    /\ Saved(PATH_TRAIN_GENUINE) /\ Saved(PATH_TRAIN_FORGERIES)

====
